---- MODULE Spec2Model ----
(***************************************************************************)
(* A model of RelayRecordWriter (src/src/store/RelayRecordWriter.js): the  *)
(* record map, the root-call map and the node-connection map shared by the *)
(* Writers of one store, and the Writer's operations on them.              *)
(***************************************************************************)
EXTENDS Integers, Sequences, FiniteSets, TLC

\* ------------------------------------------------------------------ bounds
MaxMutationID == 2      \* optimistic Writers carry mutation ids 1..MaxMutationID
MaxListLen == 2         \* longest id list handed to putLinkedRecordIDs
MaxQueue == 2           \* most optimistic range updates queued on a record
MaxGeneration == 1      \* highest generation a resolved fragment map reaches

\* ------------------------------------------------------- program constants
EMPTY == ""
PATH == "__path__"
FILTER_CALLS == "__filterCalls__"
FORCE_INDEX == "__forceIndex__"
RANGE == "__range__"
RESOLVED_FRAGMENT_MAP == "__resolvedFragmentMap__"
RESOLVED_FRAGMENT_MAP_GENERATION == "__resolvedFragmentMapGeneration__"
NODE == "node"
CURSOR == "cursor"
APPEND == "append"
PREPEND == "prepend"
REMOVE == "remove"
NODE_ROOT_CALL == "node"
OPTIMISTIC_MASK == 1
NoMutationID == 0       \* this._clientMutationID left null/undefined

\* ---------------------------------------------------------------- inputs
ServerIDs == {"s1", "s2"}
ClientIDs == {"client:1"}
DataIDs == ServerIDs \cup ClientIDs
RecordIDs == {"s1", "client:1"}          \* ids of the record lifecycle runs
TypeNames == {"User", "Page"}
NoPath == "undefined"                    \* the path argument left out
Paths == {"path1"}
StorageKeys == {"name", "friends"}       \* application field keys
LinkKeys == {"friends"}                  \* the key the linked-record writes use
FieldParentIDs == {"s1"}                 \* the record the field runs write into
FieldTypeNames == {"User"}
\* values handed to putField: a scalar and the shapes the linked reads reject
FieldValues == {[tag |-> "string", v |-> "Alice"],
                [tag |-> "object"],
                [tag |-> "array", items |-> <<[tag |-> "object"]>>],
                [tag |-> "array", items |-> <<[tag |-> "null"]>>]}
\* the writes of putField: the scalar under name, every shape under the key
\* of the linked reads
FieldWrites == ({"name"} \X {[tag |-> "string", v |-> "Alice"]})
                 \cup (LinkKeys \X FieldValues)
RootStorageKeys == {NODE_ROOT_CALL, "viewer", "username"}
\* identifying arguments: left out, null, the empty string, a value
RootArgs == {[tag |-> "undefined"], [tag |-> "null"],
             [tag |-> "string", v |-> ""], [tag |-> "string", v |-> "4"]}

\* a connection, its edges and their nodes
FragmentIDs == {"f1"}
ConnectionIDs == {"c1"}
EdgeIDs == {"e1", "e2"}
NodeIDs == {"n1", "n2"}
RangeOperations == {APPEND, PREPEND, REMOVE}
\* calls of a connection field: a filter call and a pagination call
OrderByCall == [name |-> "orderby", value |-> "top"]
FirstCall == [name |-> "first", value |-> "2"]
\* the calls handed to putRange
FriendsCall == [name |-> "isViewerFriend", value |-> "true"]
RangeCalls == {<<FirstCall, OrderByCall>>, <<OrderByCall, FirstCall, FriendsCall>>}
\* the calls handed to putRangeEdges: a page of the unfiltered connection
EdgeCalls == {<<FirstCall>>}
PageInfos == {[hasNextPage |-> TRUE]}
EdgeLists == {<<"e1">>, <<"e2">>, <<"e1", "e2">>}
\* the forceIndex argument of putRange: left out, or given
ForceIndexes == {[tag |-> "undefined"], [tag |-> "number", n |-> 1]}
\* the same with null, zero and a second index
ForceInputs == ForceIndexes \cup {[tag |-> "null"], [tag |-> "number", n |-> 0],
                                  [tag |-> "number", n |-> 2]}

\* ------------------------------------------------------- JavaScript values
Undefined == [tag |-> "undefined"]
Null == [tag |-> "null"]
Str(s) == [tag |-> "string", v |-> s]
Num(n) == [tag |-> "number", n |-> n]
Obj == [tag |-> "object"]                        \* an object without __dataID__
Link(id) == [tag |-> "link", id |-> id]          \* {__dataID__: id}
List(items) == [tag |-> "array", items |-> items]
Rec(fields) == [tag |-> "record", fields |-> fields]
\* a resolved fragment map: the fragment ids set to true
Fragments(ids) == [tag |-> "fragments", ids |-> ids]

\* `x == null` of JavaScript: null or undefined
isNullish(x) == x.tag \in {"undefined", "null"}

\* own property write on a map: map[k] = v
Put(map, k, v) == [x \in DOMAIN map \cup {k} |-> IF x = k THEN v ELSE map[x]]
\* delete map[k]
Delete(map, k) == [x \in DOMAIN map \ {k} |-> map[x]]
EmptyMap == [x \in {} |-> Null]

\* ---------------------------------------------------------------- Writers
\* constructor(records, rootCallMap, isOptimistic, nodeConnectionMap,
\*             cacheWriter, clientMutationID)
Writer(isOptimistic, clientMutationID, hasCacheWriter) ==
  [isOptimisticWrite |-> isOptimistic,
   clientMutationID |-> clientMutationID,
   cacheWriter |-> hasCacheWriter]

CommittedWriters == {Writer(FALSE, NoMutationID, c) : c \in BOOLEAN}
OptimisticWriters == {Writer(TRUE, m, TRUE) : m \in 1..MaxMutationID}
Writers == CommittedWriters \cup OptimisticWriters
\* one committed and one optimistic Writer, both with a cacheWriter
FieldWriters == {Writer(FALSE, NoMutationID, TRUE), Writer(TRUE, 1, TRUE)}
\* id lists of up to MaxListLen ids
IDLists(ids) == UNION {[1..n -> ids] : n \in 0..MaxListLen}

\* ------------------------------------------------------------------ state
VARIABLES
  records,            \* this._records: DataID -> Null | Rec(fields)
  rootCallMap,        \* this._rootCallMap: storageKey -> (arg -> DataID)
  nodeConnectionMap,  \* this._nodeConnectionMap: nodeID -> set of connectionID
  cacheCalls,         \* the calls the last operation made on the cacheWriter
  last,               \* the last call: operation, Writer, arguments, outcome
  pre,                \* the three maps as they were before the last call
  repeat,             \* the last call repeats the call before it
  written,            \* ids some returned write operation was aimed at
  generations         \* the highest generation each id carried before the
                      \* last call

vars == <<records, rootCallMap, nodeConnectionMap, cacheCalls, last, pre,
          repeat, written, generations>>

Store == [records |-> records, rootCallMap |-> rootCallMap,
          nodeConnectionMap |-> nodeConnectionMap]

Call(op, w, args, result) == [op |-> op, w |-> w, args |-> args, result |-> result]

Init ==
  /\ records = EmptyMap
  /\ rootCallMap = EmptyMap
  /\ nodeConnectionMap = EmptyMap
  /\ cacheCalls = <<>>
  /\ last = Call("new", Writer(FALSE, NoMutationID, FALSE), <<>>, "ok")
  /\ pre = [records |-> EmptyMap, rootCallMap |-> EmptyMap,
            nodeConnectionMap |-> EmptyMap]
  /\ repeat = FALSE
  /\ written = {}
  /\ generations = EmptyMap

\* --------------------------------------------------------- pure functions
\* this._records[dataID]
lookup(recs, dataID) == IF dataID \in DOMAIN recs THEN recs[dataID] ELSE Undefined

truthy(x) == x.tag \in {"record", "link", "array", "object", "range", "fragments"}

getRecordState(recs, dataID) ==
  LET record == lookup(recs, dataID) IN
  IF record = Null THEN "NONEXISTENT"
  ELSE IF record = Undefined THEN "UNKNOWN"
  ELSE "EXISTENT"

\* RelayRecord.isClientID
isClientID(dataID) == dataID \in ClientIDs

\* RelayNodeInterface.isNodeRootCall
isNodeRootCall(storageKey) == storageKey = NODE_ROOT_CALL

\* RelayRecordStatusMap.setOptimisticStatus(status, value), status = 0
setOptimisticStatus(status, value) ==
  IF value THEN status + OPTIMISTIC_MASK ELSE status

_getField(recs, dataID, storageKey) ==
  LET record == lookup(recs, dataID) IN
  IF record = Null THEN Null
  ELSE IF record.tag = "record" /\ storageKey \in DOMAIN record.fields
       THEN record.fields[storageKey]
  ELSE Undefined

getField(recs, dataID, storageKey) == _getField(recs, dataID, storageKey)

getPathToRecord(recs, dataID) == _getField(recs, dataID, PATH)

getType(recs, dataID) == _getField(recs, dataID, "__typename")

Return(value) == [result |-> "ok", value |-> value]
Throw(kind) == [result |-> kind]

getLinkedRecordIDNoArrayCheck(recs, dataID, storageKey) ==
  LET field == _getField(recs, dataID, storageKey) IN
  IF isNullish(field) THEN Return(field)
  ELSE IF field.tag \in {"link", "object", "array"}
  THEN Return(IF field.tag = "link" THEN Str(field.id) ELSE Undefined)
  ELSE Throw("invariant")

getLinkedRecordID(recs, dataID, storageKey) ==
  LET field == _getField(recs, dataID, storageKey) IN
  IF isNullish(field) THEN Return(field)
  ELSE IF field.tag \in {"link", "object"}    \* an object that is no array
  THEN Return(IF field.tag = "link" THEN Str(field.id) ELSE Undefined)
  ELSE Throw("invariant")

\* typeof item === 'object' && item.__dataID__
isLinkedItem(item) == item.tag = "link"

getLinkedRecordIDs(recs, dataID, storageKey) ==
  LET field == _getField(recs, dataID, storageKey) IN
  IF isNullish(field) THEN Return(field)
  ELSE IF field.tag # "array" THEN Throw("invariant")
  ELSE LET items == field.items
           bad == {i \in 1..Len(items) : ~isLinkedItem(items[i])}
       IN IF bad = {}
          THEN Return(List([i \in 1..Len(items) |-> Str(items[i].id)]))
          ELSE LET first == CHOOSE i \in bad : \A j \in bad : i <= j IN
               \* null.__dataID__ is a TypeError, not a failed invariant
               IF items[first] = Null THEN Throw("TypeError")
               ELSE Throw("invariant")

\* ------------------------------------------------------------ GraphQLRange
\* RelayConnectionInterface.isConnectionCall: the pagination calls
isConnectionCall(call) == call.name \in {"first", "after", "last", "before"}
isFilterCall(call) == ~isConnectionCall(call)

getFilterCallsUnfiltered(calls) == calls
getFilterCalls(calls) == SelectSeq(calls, isFilterCall)

\* a range: segments keyed by filter calls, each an ordered list of
\* (edgeID, cursor, nodeID) and the page info of its last page
Range(segments) == [tag |-> "range", segments |-> segments]
NewRange == Range(EmptyMap)
Segment(edges, pageInfo) == [edges |-> edges, pageInfo |-> pageInfo]
EmptySegment == Segment(<<>>, [hasNextPage |-> FALSE])
EdgeData(edgeID, cursor, nodeID) ==
  [edgeID |-> edgeID, cursor |-> cursor, nodeID |-> nodeID]

segmentOf(range, key) ==
  IF key \in DOMAIN range.segments THEN range.segments[key] ELSE EmptySegment

hasEdge(edges, edgeID) == \E i \in 1..Len(edges) : edges[i].edgeID = edgeID

RECURSIVE withoutEdges(_, _)
\* edges without those whose id is among the ids of drop
withoutEdges(edges, drop) ==
  IF edges = <<>> THEN <<>>
  ELSE IF hasEdge(drop, Head(edges).edgeID)
       THEN withoutEdges(Tail(edges), drop)
       ELSE <<Head(edges)>> \o withoutEdges(Tail(edges), drop)

RECURSIVE uniqueEdges(_)
\* the first occurrence of every edge id
uniqueEdges(edges) ==
  IF edges = <<>> THEN <<>>
  ELSE <<Head(edges)>> \o uniqueEdges(withoutEdges(Tail(edges), <<Head(edges)>>))

\* GraphQLRange.addItems: merge a page into the segment of its filter calls
addItems(range, calls, edgesData, pageInfo) ==
  LET key == getFilterCalls(calls)
      page == uniqueEdges(edgesData)
      merged == withoutEdges(segmentOf(range, key).edges, page) \o page
  IN Range(Put(range.segments, key, Segment(merged, pageInfo)))

\* GraphQLRange.removeEdgeWithID: out of every segment
removeEdgeWithID(range, edgeID) ==
  Range([key \in DOMAIN range.segments |->
           Segment(withoutEdges(range.segments[key].edges,
                                <<EdgeData(edgeID, Undefined, "")>>),
                   range.segments[key].pageInfo)])

\* GraphQLRange.appendEdge / prependEdge: at the end / start of the segment
\* of the unfiltered connection
appendEdge(range, edge) ==
  LET seg == segmentOf(range, <<>>) IN
  Range(Put(range.segments, <<>>,
            Segment(withoutEdges(seg.edges, <<edge>>) \o <<edge>>, seg.pageInfo)))

prependEdge(range, edge) ==
  LET seg == segmentOf(range, <<>>) IN
  Range(Put(range.segments, <<>>,
            Segment(<<edge>> \o withoutEdges(seg.edges, <<edge>>), seg.pageInfo)))

\* the node ids of the edges a range holds
rangeNodes(range) ==
  UNION {{range.segments[key].edges[i].nodeID :
            i \in 1..Len(range.segments[key].edges)} : key \in DOMAIN range.segments}

\* the edge ids a range holds
rangeEdges(range) ==
  UNION {{range.segments[key].edges[i].edgeID :
            i \in 1..Len(range.segments[key].edges)} : key \in DOMAIN range.segments}

\* ------------------------------------------------------ reads of a range
getRangeForceIndexNullAsZero(recs, connectionID) ==
  LET forceIndex == _getField(recs, connectionID, FORCE_INDEX) IN
  IF forceIndex.tag = "number" THEN forceIndex.n ELSE 0

getRangeForceIndex(recs, connectionID) ==
  LET forceIndex == _getField(recs, connectionID, FORCE_INDEX) IN
  IF forceIndex = Null THEN 0 - 1
  ELSE IF forceIndex.tag = "number" THEN forceIndex.n   \* forceIndex || 0
  ELSE 0

getRangeFilterCalls(recs, connectionID) ==
  _getField(recs, connectionID, FILTER_CALLS)

hasRange(recs, connectionID) == truthy(_getField(recs, connectionID, RANGE))

\* _getRangeEdgeData: the edge as GraphQLRange takes it, or the failed
\* invariant
_getRangeEdgeData(recs, edgeID) ==
  LET nodeID == getLinkedRecordID(recs, edgeID, NODE) IN
  IF nodeID.result # "ok" THEN nodeID
  ELSE IF nodeID.value.tag # "string" THEN Throw("invariant")
  ELSE Return(EdgeData(edgeID, getField(recs, edgeID, CURSOR), nodeID.value.v))

\* _addConnectionForNode
_addConnectionForNodeSkipped(map, connectionID, nodeID) == map
_addConnectionForNode(map, connectionID, nodeID) ==
  Put(map, nodeID,
      (IF nodeID \in DOMAIN map THEN map[nodeID] ELSE {}) \cup {connectionID})

\* _removeConnectionForNode
_removeConnectionForNodeKeepEmpty(map, connectionID, nodeID) ==
  IF nodeID \in DOMAIN map
  THEN Put(map, nodeID, map[nodeID] \ {connectionID})
  ELSE map
_removeConnectionForNode(map, connectionID, nodeID) ==
  IF nodeID \in DOMAIN map
  THEN IF map[nodeID] \ {connectionID} = {}
       THEN Delete(map, nodeID)
       ELSE Put(map, nodeID, map[nodeID] \ {connectionID})
  ELSE map

\* if (identifyingArgValue == null) { identifyingArgValue = EMPTY; }
\* the result is the property name the argument selects in the map
identifyingArgUndefinedOnly(identifyingArgValue) ==
  IF identifyingArgValue = Undefined THEN EMPTY
  ELSE IF identifyingArgValue = Null THEN "null"
  ELSE identifyingArgValue.v
identifyingArg(identifyingArgValue) ==
  IF isNullish(identifyingArgValue) THEN EMPTY ELSE identifyingArgValue.v

getDataID(rootCalls, storageKey, identifyingArgValue) ==
  IF isNodeRootCall(storageKey)
  THEN IF isNullish(identifyingArgValue) THEN Throw("invariant")
       ELSE Return(identifyingArgValue)
  ELSE LET arg == identifyingArg(identifyingArgValue) IN
       IF storageKey \in DOMAIN rootCalls /\ arg \in DOMAIN rootCalls[storageKey]
       THEN Return(Str(rootCalls[storageKey][arg]))
       ELSE Return(Undefined)

\* _setClientMutationID on the fields of one record;
\* ok = FALSE is the invariant on this._clientMutationID
_setClientMutationIDAlwaysPush(w, fields) ==
  IF w.clientMutationID = NoMutationID
  THEN [ok |-> FALSE, fields |-> fields]
  ELSE
    LET mutationIDs == IF "__mutationIDs__" \in DOMAIN fields
                       THEN fields["__mutationIDs__"].items ELSE <<>>
        tagged == Put(fields, "__mutationIDs__",
                      List(Append(mutationIDs, w.clientMutationID)))
    IN [ok |-> TRUE,
        fields |-> Put(tagged, "__status__", Num(setOptimisticStatus(0, TRUE)))]

_setClientMutationID(w, fields) ==
  IF w.clientMutationID = NoMutationID
  THEN [ok |-> FALSE, fields |-> fields]
  ELSE
    LET mutationIDs == IF "__mutationIDs__" \in DOMAIN fields
                       THEN fields["__mutationIDs__"].items ELSE <<>>
        tagged == IF \E i \in 1..Len(mutationIDs) : mutationIDs[i] = w.clientMutationID
                  THEN fields
                  ELSE Put(fields, "__mutationIDs__",
                           List(Append(mutationIDs, w.clientMutationID)))
    IN [ok |-> TRUE,
        fields |-> Put(tagged, "__status__", Num(setOptimisticStatus(0, TRUE)))]

\* _getRecordForWrite: the record (or null/undefined) and the record map
\* after the optimistic tagging of the record
_getRecordForWriteUntagged(recs, w, dataID) ==
  [ok |-> TRUE, record |-> lookup(recs, dataID), records |-> recs]

_getRecordForWrite(recs, w, dataID) ==
  LET record == lookup(recs, dataID) IN
  IF ~truthy(record) THEN [ok |-> TRUE, record |-> record, records |-> recs]
  ELSE IF w.isOptimisticWrite
  THEN LET t == _setClientMutationID(w, record.fields) IN
       IF t.ok
       THEN [ok |-> TRUE, record |-> Rec(t.fields),
             records |-> Put(recs, dataID, Rec(t.fields))]
       ELSE [ok |-> FALSE, record |-> record, records |-> recs]
  ELSE [ok |-> TRUE, record |-> record, records |-> recs]

\* hasDeferredFragmentData
hasDeferredFragmentData(recs, dataID, fragmentID) ==
  LET resolvedFragmentMap == _getField(recs, dataID, RESOLVED_FRAGMENT_MAP) IN
  IF resolvedFragmentMap.tag \in {"string", "number"} THEN Throw("invariant")
  ELSE Return(resolvedFragmentMap.tag = "fragments"
                /\ fragmentID \in resolvedFragmentMap.ids)

\* record[RESOLVED_FRAGMENT_MAP_GENERATION] when it is a number, else -1
generationOf(recs, dataID) ==
  LET generation == _getField(recs, dataID, RESOLVED_FRAGMENT_MAP_GENERATION) IN
  IF generation.tag = "number" THEN generation.n ELSE 0 - 1

\* ---------------------------------------------------------------- actions
\* what every operation does to the history variables
Record(op, w, args, result, target) ==
  \* only setHasDeferredFragmentData writes a generation: the one the last
  \* call left is added to those its id carried before
  /\ generations' =
       IF last.op = "setHasDeferredFragmentData" /\ last.result = "ok"
            /\ (last.args[1] \in DOMAIN generations =>
                  generations[last.args[1]] < generationOf(records, last.args[1]))
       THEN Put(generations, last.args[1], generationOf(records, last.args[1]))
       ELSE generations
  /\ last' = Call(op, w, args, result)
  /\ pre' = Store
  /\ repeat' = (last.op = op /\ last.w = w /\ last.args = args)
  /\ written' = IF result = "ok" /\ target \in DataIDs
                THEN written \cup {target} ELSE written

\* an operation that stops at a failed invariant, the record map being recs
FailKeeping(op, w, args, recs) ==
  /\ records' = recs
  /\ UNCHANGED <<rootCallMap, nodeConnectionMap>>
  /\ cacheCalls' = <<>>
  /\ Record(op, w, args, "invariant", "")

\* an operation that stops at a failed invariant before any assignment
Fail(op, w, args) == FailKeeping(op, w, args, records)

\* an operation that stops at a failed invariant, having written both maps
FailLeaving(op, w, args, recs, connections) ==
  /\ records' = recs
  /\ nodeConnectionMap' = connections
  /\ UNCHANGED rootCallMap
  /\ cacheCalls' = <<>>
  /\ Record(op, w, args, "invariant", "")

\* record[storageKey], undefined when the record has no such property
fieldOf(fields, storageKey) ==
  IF storageKey \in DOMAIN fields THEN fields[storageKey] ELSE Undefined

\* record[storageKey] = value on the record at dataID
setField(recs, dataID, fields, storageKey, value) ==
  Put(recs, dataID, Rec(Put(fields, storageKey, value)))

WriteField(dataID, storageKey, value, typeName) ==
  [fn |-> "writeField", id |-> dataID, key |-> storageKey, value |-> value,
   typeName |-> typeName]

putRecordNextPathUnchecked(w, dataID, typeName, path) ==
  LET base == [__dataID__ |-> Str(dataID), __typename |-> Str(typeName)]
      tagged == IF w.isOptimisticWrite
                THEN _setClientMutationID(w, base)
                ELSE [ok |-> TRUE, fields |-> base]
  IN IF ~tagged.ok THEN tagged
     ELSE IF isClientID(dataID)
          THEN [ok |-> TRUE, fields |-> Put(tagged.fields, PATH, Str(path))]
          ELSE tagged

\* lines 168-183 of putRecord: the record to store, or the failed invariant
putRecordNext(w, dataID, typeName, path) ==
  LET base == [__dataID__ |-> Str(dataID), __typename |-> Str(typeName)]
      tagged == IF w.isOptimisticWrite
                THEN _setClientMutationID(w, base)
                ELSE [ok |-> TRUE, fields |-> base]
  IN IF ~tagged.ok THEN tagged
     ELSE IF isClientID(dataID)
          THEN IF path = NoPath THEN [ok |-> FALSE, fields |-> tagged.fields]
               ELSE [ok |-> TRUE, fields |-> Put(tagged.fields, PATH, Str(path))]
          ELSE tagged

\* if (prevRecord) { return; }
putRecordReturnsEarlyAnyState(prevRecord) == prevRecord # Undefined
putRecordReturnsEarly(prevRecord) == truthy(prevRecord)

PutRecord(w, dataID, typeName, path) ==
  LET args == <<dataID, typeName, path>>
      prev == _getRecordForWrite(records, w, dataID)
      next == putRecordNext(w, dataID, typeName, path)
  IN IF ~prev.ok THEN Fail("putRecord", w, args)
     ELSE IF putRecordReturnsEarly(prev.record)
     THEN /\ records' = prev.records
          /\ UNCHANGED <<rootCallMap, nodeConnectionMap>>
          /\ cacheCalls' = <<>>
          /\ Record("putRecord", w, args, "ok", dataID)
     ELSE IF ~next.ok THEN Fail("putRecord", w, args)
     ELSE /\ records' = Put(records, dataID, Rec(next.fields))
          /\ UNCHANGED <<rootCallMap, nodeConnectionMap>>
          /\ cacheCalls' = IF ~w.isOptimisticWrite /\ w.cacheWriter
                           THEN <<WriteField(dataID, "__dataID__", Str(dataID),
                                             Str(typeName))>>
                           ELSE <<>>
          /\ Record("putRecord", w, args, "ok", dataID)

\* this._records[dataID] = null
deleteRecordSlotRemoved(recs, dataID) == Delete(recs, dataID)
deleteRecordSlot(recs, dataID) == Put(recs, dataID, Null)

\* if (!this._isOptimisticWrite) delete this._nodeConnectionMap[dataID]
deleteRecordConnectionsAnyWriter(w, map, dataID) == Delete(map, dataID)
deleteRecordConnections(w, map, dataID) ==
  IF ~w.isOptimisticWrite THEN Delete(map, dataID) ELSE map

DeleteRecord(w, dataID) ==
  /\ records' = deleteRecordSlot(records, dataID)
  /\ nodeConnectionMap' = deleteRecordConnections(w, nodeConnectionMap, dataID)
  /\ cacheCalls' = IF ~w.isOptimisticWrite /\ w.cacheWriter
                   THEN <<[fn |-> "writeNode", id |-> dataID, value |-> Null]>>
                   ELSE <<>>
  /\ UNCHANGED rootCallMap
  /\ Record("deleteRecord", w, <<dataID>>, "ok", dataID)

PutField(w, dataID, storageKey, value) ==
  LET args == <<dataID, storageKey, value>>
      got == _getRecordForWrite(records, w, dataID)
  IN IF ~got.ok \/ ~truthy(got.record) THEN Fail("putField", w, args)
     ELSE /\ records' = setField(got.records, dataID, got.record.fields,
                                 storageKey, value)
          /\ UNCHANGED <<rootCallMap, nodeConnectionMap>>
          /\ cacheCalls' = IF ~w.isOptimisticWrite /\ w.cacheWriter
                           THEN <<WriteField(dataID, storageKey, value,
                                    fieldOf(got.record.fields, "__typename"))>>
                           ELSE <<>>
          /\ Record("putField", w, args, "ok", dataID)

\* record[storageKey] = null
deleteFieldKeyRemoved(recs, dataID, fields, storageKey) ==
  Put(recs, dataID, Rec(Delete(fields, storageKey)))
deleteFieldValue(recs, dataID, fields, storageKey) ==
  setField(recs, dataID, fields, storageKey, Null)

DeleteField(w, dataID, storageKey) ==
  LET args == <<dataID, storageKey>>
      got == _getRecordForWrite(records, w, dataID)
  IN IF ~got.ok \/ ~truthy(got.record) THEN Fail("deleteField", w, args)
     ELSE /\ records' = deleteFieldValue(got.records, dataID,
                                         got.record.fields, storageKey)
          /\ UNCHANGED <<rootCallMap, nodeConnectionMap>>
          /\ cacheCalls' = IF ~w.isOptimisticWrite /\ w.cacheWriter
                           THEN <<WriteField(dataID, storageKey, Null, Undefined)>>
                           ELSE <<>>
          /\ Record("deleteField", w, args, "ok", dataID)

\* const record = this._records[recordID]; invariant(record, ...)
linkedRecordPresent(recs, recordID) == lookup(recs, recordID) # Undefined
linkedRecordExists(recs, recordID) == truthy(lookup(recs, recordID))

PutLinkedRecordID(w, parentID, storageKey, recordID) ==
  LET args == <<parentID, storageKey, recordID>>
      got == _getRecordForWrite(records, w, parentID)
      fieldValue == Link(recordID)
  IN IF ~got.ok \/ ~truthy(got.record)
     THEN Fail("putLinkedRecordID", w, args)
     ELSE IF ~linkedRecordExists(got.records, recordID)
     THEN FailKeeping("putLinkedRecordID", w, args, got.records)
     ELSE /\ records' = setField(got.records, parentID, got.record.fields,
                                 storageKey, fieldValue)
          /\ UNCHANGED <<rootCallMap, nodeConnectionMap>>
          /\ cacheCalls' = IF ~w.isOptimisticWrite /\ w.cacheWriter
                           THEN <<WriteField(parentID, storageKey, fieldValue,
                                             Undefined)>>
                           ELSE <<>>
          /\ Record("putLinkedRecordID", w, args, "ok", parentID)

\* recordIDs.map(recordID => ({__dataID__: recordID}))
linkedRecordsReversed(recordIDs) ==
  List([i \in 1..Len(recordIDs) |-> Link(recordIDs[Len(recordIDs) + 1 - i])])
linkedRecords(recordIDs) ==
  List([i \in 1..Len(recordIDs) |-> Link(recordIDs[i])])

PutLinkedRecordIDs(w, parentID, storageKey, recordIDs) ==
  LET args == <<parentID, storageKey, recordIDs>>
      got == _getRecordForWrite(records, w, parentID)
      linked == linkedRecords(recordIDs)
  IN IF ~got.ok \/ ~truthy(got.record)
     THEN Fail("putLinkedRecordIDs", w, args)
     ELSE IF \E i \in 1..Len(recordIDs) :
                ~linkedRecordExists(got.records, recordIDs[i])
     THEN FailKeeping("putLinkedRecordIDs", w, args, got.records)
     ELSE /\ records' = setField(got.records, parentID, got.record.fields,
                                 storageKey, linked)
          /\ UNCHANGED <<rootCallMap, nodeConnectionMap>>
          /\ cacheCalls' = IF ~w.isOptimisticWrite /\ w.cacheWriter
                           THEN <<WriteField(parentID, storageKey, linked,
                                             Undefined)>>
                           ELSE <<>>
          /\ Record("putLinkedRecordIDs", w, args, "ok", parentID)

\* the root-call map putDataID leaves behind
putDataIDMapNoBypass(rootCalls, storageKey, identifyingArgValue, dataID) ==
  LET arg == identifyingArg(identifyingArgValue)
      inner == IF storageKey \in DOMAIN rootCalls
               THEN rootCalls[storageKey] ELSE EmptyMap
  IN Put(rootCalls, storageKey, Put(inner, arg, dataID))
putDataIDMap(rootCalls, storageKey, identifyingArgValue, dataID) ==
  IF isNodeRootCall(storageKey) THEN rootCalls
  ELSE LET arg == identifyingArg(identifyingArgValue)
           inner == IF storageKey \in DOMAIN rootCalls
                    THEN rootCalls[storageKey] ELSE EmptyMap
       IN Put(rootCalls, storageKey, Put(inner, arg, dataID))

PutDataID(w, storageKey, identifyingArgValue, dataID) ==
  LET args == <<storageKey, identifyingArgValue, dataID>> IN
  IF isNodeRootCall(storageKey) /\ isNullish(identifyingArgValue)
  THEN Fail("putDataID", w, args)
  ELSE /\ rootCallMap' = putDataIDMap(rootCallMap, storageKey,
                                      identifyingArgValue, dataID)
       /\ UNCHANGED <<records, nodeConnectionMap>>
       /\ cacheCalls' = IF ~isNodeRootCall(storageKey) /\ w.cacheWriter
                        THEN <<[fn |-> "writeRootCall", key |-> storageKey,
                                arg |-> identifyingArg(identifyingArgValue),
                                id |-> dataID]>>
                        ELSE <<>>
       /\ Record("putDataID", w, args, "ok", "")

\* forceIndex = forceIndex || 0
forceIndexOrZero(forceIndex) ==
  IF forceIndex.tag = "number" THEN forceIndex.n ELSE 0

\* invariant(!this._isOptimisticWrite, ...) of putRange
putRangeAllowedAlways(w) == TRUE
putRangeAllowed(w) == ~w.isOptimisticWrite

PutRange(w, connectionID, calls, forceIndex) ==
  LET args == <<connectionID, calls, forceIndex>>
      got == _getRecordForWrite(records, w, connectionID)
      filterCalls == List(getFilterCalls(calls))
      index == Num(forceIndexOrZero(forceIndex))
  IN IF ~putRangeAllowed(w) THEN Fail("putRange", w, args)
     ELSE IF ~got.ok \/ ~truthy(got.record) THEN Fail("putRange", w, args)
     ELSE /\ records' =
               Put(got.records, connectionID,
                   Rec(Put(Put(Put(got.record.fields, FILTER_CALLS, filterCalls),
                               FORCE_INDEX, index),
                           RANGE, NewRange)))
          /\ UNCHANGED <<rootCallMap, nodeConnectionMap>>
          /\ cacheCalls' = IF ~w.isOptimisticWrite /\ w.cacheWriter
                           THEN <<WriteField(connectionID, FILTER_CALLS,
                                             filterCalls, Undefined),
                                  WriteField(connectionID, FORCE_INDEX, index,
                                             Undefined),
                                  WriteField(connectionID, RANGE, NewRange,
                                             Undefined)>>
                           ELSE <<>>
          /\ Record("putRange", w, args, "ok", connectionID)

RECURSIVE edgesData(_, _, _, _)
\* the forEach of putRangeEdges: the data of the edges and the
\* node-connection map, up to the first edge whose data cannot be read
edgesData(recs, connections, connectionID, edges) ==
  IF edges = <<>> THEN [ok |-> TRUE, connections |-> connections, data |-> <<>>]
  ELSE LET edgeData == _getRangeEdgeData(recs, Head(edges)) IN
       IF edgeData.result # "ok"
       THEN [ok |-> FALSE, connections |-> connections, data |-> <<>>]
       ELSE LET rest == edgesData(recs,
                          _addConnectionForNode(connections, connectionID,
                                                edgeData.value.nodeID),
                          connectionID, Tail(edges))
            IN [ok |-> rest.ok, connections |-> rest.connections,
                data |-> <<edgeData.value>> \o rest.data]

PutRangeEdges(w, connectionID, calls, pageInfo, edges) ==
  LET args == <<connectionID, calls, pageInfo, edges>>
      range == _getField(records, connectionID, RANGE)
      read == edgesData(records, nodeConnectionMap, connectionID, edges)
      merged == addItems(range, calls, read.data, pageInfo)
  IN IF ~truthy(range) THEN Fail("putRangeEdges", w, args)
     ELSE IF ~read.ok
     THEN FailLeaving("putRangeEdges", w, args, records, read.connections)
     ELSE /\ records' = setField(records, connectionID,
                                 records[connectionID].fields, RANGE, merged)
          /\ nodeConnectionMap' = read.connections
          /\ UNCHANGED rootCallMap
          /\ cacheCalls' = IF ~w.isOptimisticWrite /\ w.cacheWriter
                           THEN <<WriteField(connectionID, RANGE, merged,
                                             Undefined)>>
                           ELSE <<>>
          /\ Record("putRangeEdges", w, args, "ok", connectionID)

\* the queue of an operation on a connection record, [] when not yet there
queueOf(fields, operation) ==
  IF operation \in DOMAIN fields THEN fields[operation].items ELSE <<>>

\* the number of edge ids queued on a connection record
queued(fields) ==
  Len(queueOf(fields, APPEND)) + Len(queueOf(fields, PREPEND))
    + Len(queueOf(fields, REMOVE))

\* queue.unshift(edgeID) for prepend, queue.push(edgeID) otherwise
enqueueAtEnd(queue, edgeID, operation) == Append(queue, Str(edgeID))
enqueue(queue, edgeID, operation) ==
  IF operation = PREPEND THEN <<Str(edgeID)>> \o queue
  ELSE Append(queue, Str(edgeID))

_applyOptimisticRangeUpdate(w, connectionID, edgeID, operation) ==
  LET args == <<connectionID, edgeID, operation>>
      got == _getRecordForWrite(records, w, connectionID)
      created == _setClientMutationID(w, [__dataID__ |-> Str(connectionID)])
      fields == IF truthy(got.record) THEN got.record.fields ELSE created.fields
  IN IF ~got.ok \/ (~truthy(got.record) /\ ~created.ok)
     THEN IF truthy(got.record) \/ ~got.ok
          THEN Fail("applyRangeUpdate", w, args)
          \* the new record is in this._records when the invariant fails
          ELSE FailKeeping("applyRangeUpdate", w, args,
                           Put(records, connectionID,
                               Rec([__dataID__ |-> Str(connectionID)])))
     ELSE /\ queued(fields) < MaxQueue
          /\ records' = setField(got.records, connectionID, fields, operation,
                                 List(enqueue(queueOf(fields, operation),
                                              edgeID, operation)))
          /\ UNCHANGED <<rootCallMap, nodeConnectionMap>>
          /\ cacheCalls' = <<>>
          /\ Record("applyRangeUpdate", w, args, "ok", connectionID)

_applyServerRangeUpdate(w, connectionID, edgeID, operation) ==
  LET args == <<connectionID, edgeID, operation>>
      range == _getField(records, connectionID, RANGE)
      fields == records[connectionID].fields
      removed == removeEdgeWithID(range, edgeID)
      nodeID == getLinkedRecordID(records, edgeID, NODE)
      edgeData == _getRangeEdgeData(records, edgeID)
      updated == IF operation = REMOVE THEN removed
                 ELSE IF operation = APPEND
                 THEN appendEdge(range, edgeData.value)
                 ELSE prependEdge(range, edgeData.value)
      written_ == IF w.cacheWriter
                  THEN <<WriteField(connectionID, RANGE, updated, Undefined)>>
                  ELSE <<>>
  IN IF ~truthy(range) THEN Fail("applyRangeUpdate", w, args)
     ELSE IF operation = REMOVE
     THEN IF nodeID.result # "ok"
          THEN FailKeeping("applyRangeUpdate", w, args,
                           setField(records, connectionID, fields, RANGE, removed))
          ELSE /\ records' = setField(records, connectionID, fields, RANGE, removed)
               /\ nodeConnectionMap' =
                    IF nodeID.value.tag = "string"
                    THEN _removeConnectionForNode(nodeConnectionMap,
                                                  connectionID, nodeID.value.v)
                    ELSE nodeConnectionMap
               /\ UNCHANGED rootCallMap
               /\ cacheCalls' = written_
               /\ Record("applyRangeUpdate", w, args, "ok", connectionID)
     ELSE IF edgeData.result # "ok" THEN Fail("applyRangeUpdate", w, args)
     ELSE /\ records' = setField(records, connectionID, fields, RANGE, updated)
          /\ nodeConnectionMap' =
               _addConnectionForNode(nodeConnectionMap, connectionID,
                                     edgeData.value.nodeID)
          /\ UNCHANGED rootCallMap
          /\ cacheCalls' = written_
          /\ Record("applyRangeUpdate", w, args, "ok", connectionID)

\* if (this._isOptimisticWrite) of applyRangeUpdate
queuesRangeUpdateNever(w) == FALSE
queuesRangeUpdateAlways(w) == TRUE
queuesRangeUpdate(w) == w.isOptimisticWrite

ApplyRangeUpdate(w, connectionID, edgeID, operation) ==
  IF queuesRangeUpdate(w)
  THEN _applyOptimisticRangeUpdate(w, connectionID, edgeID, operation)
  ELSE _applyServerRangeUpdate(w, connectionID, edgeID, operation)

\* record[RESOLVED_FRAGMENT_MAP_GENERATION]++ when it is a number, else 0
nextGenerationKept(fields) ==
  IF fieldOf(fields, RESOLVED_FRAGMENT_MAP_GENERATION).tag = "number"
  THEN fields[RESOLVED_FRAGMENT_MAP_GENERATION].n
  ELSE 0
nextGeneration(fields) ==
  IF fieldOf(fields, RESOLVED_FRAGMENT_MAP_GENERATION).tag = "number"
  THEN fields[RESOLVED_FRAGMENT_MAP_GENERATION].n + 1
  ELSE 0

SetHasDeferredFragmentData(w, dataID, fragmentID) ==
  LET args == <<dataID, fragmentID>>
      got == _getRecordForWrite(records, w, dataID)
      resolvedFragmentMap == fieldOf(got.record.fields, RESOLVED_FRAGMENT_MAP)
      resolved == IF resolvedFragmentMap.tag = "fragments"
                  THEN resolvedFragmentMap.ids ELSE {}
  IN IF ~got.ok \/ ~truthy(got.record)
     THEN Fail("setHasDeferredFragmentData", w, args)
     ELSE /\ nextGeneration(got.record.fields) <= MaxGeneration
          /\ records' =
               Put(got.records, dataID,
                   Rec(Put(Put(got.record.fields, RESOLVED_FRAGMENT_MAP,
                               Fragments(resolved \cup {fragmentID})),
                           RESOLVED_FRAGMENT_MAP_GENERATION,
                           Num(nextGeneration(got.record.fields)))))
          /\ UNCHANGED <<rootCallMap, nodeConnectionMap>>
          /\ cacheCalls' = <<>>
          /\ Record("setHasDeferredFragmentData", w, args, "ok", dataID)

\* ------------------------------------------- record lifecycle (putRecord,
\* deleteRecord) under every Writer
NextRecord ==
  \/ \E w \in Writers, dataID \in RecordIDs : DeleteRecord(w, dataID)
  \/ \E w \in Writers, dataID \in RecordIDs, typeName \in TypeNames,
        path \in Paths \cup {NoPath} : PutRecord(w, dataID, typeName, path)

SpecRecord == Init /\ [][NextRecord]_vars

\* ---------------- scalar and linked fields of one record, whose linked
\* records come and go
NextField ==
  \/ \E w \in FieldWriters, dataID \in ServerIDs, typeName \in FieldTypeNames :
        PutRecord(w, dataID, typeName, NoPath)
  \/ \E w \in FieldWriters, dataID \in ServerIDs : DeleteRecord(w, dataID)
  \/ \E w \in FieldWriters, dataID \in FieldParentIDs,
        write \in FieldWrites :
        PutField(w, dataID, write[1], write[2])
  \/ \E w \in FieldWriters, dataID \in FieldParentIDs,
        storageKey \in StorageKeys : DeleteField(w, dataID, storageKey)
  \/ \E w \in FieldWriters, parentID \in FieldParentIDs,
        storageKey \in LinkKeys, recordID \in ServerIDs :
        PutLinkedRecordID(w, parentID, storageKey, recordID)
  \/ \E w \in FieldWriters, parentID \in FieldParentIDs,
        storageKey \in LinkKeys, recordIDs \in IDLists(ServerIDs) :
        PutLinkedRecordIDs(w, parentID, storageKey, recordIDs)

SpecField == Init /\ [][NextField]_vars

\* ------------------------------------------------ root calls under every
\* Writer
NextRoot ==
  \E w \in Writers, storageKey \in RootStorageKeys,
     identifyingArgValue \in RootArgs, dataID \in ServerIDs :
     PutDataID(w, storageKey, identifyingArgValue, dataID)

SpecRoot == Init /\ [][NextRoot]_vars

\* ---------------------- one connection, its range and the node-connection
\* map. The run starts from a store a committed Writer has filled with
\* putRecord, putLinkedRecordID and putField: the connection c1, the nodes,
\* and the edges e1 -> n1 and e2 -> n2.
PlainRecord(dataID, typeName) ==
  Rec([__dataID__ |-> Str(dataID), __typename |-> Str(typeName)])
EdgeRecord(edgeID, nodeID) ==
  Rec(Put(Put(PlainRecord(edgeID, "Edge").fields, NODE, Link(nodeID)),
          CURSOR, Str(edgeID)))
ConnectionStore ==
  [dataID \in ConnectionIDs \cup EdgeIDs \cup NodeIDs |->
     IF dataID \in ConnectionIDs THEN PlainRecord(dataID, "Connection")
     ELSE IF dataID = "e1" THEN EdgeRecord("e1", "n1")
     ELSE IF dataID = "e2" THEN EdgeRecord("e2", "n2")
     ELSE PlainRecord(dataID, "User")]

InitRange ==
  /\ records = ConnectionStore
  /\ rootCallMap = EmptyMap
  /\ nodeConnectionMap = EmptyMap
  /\ cacheCalls = <<>>
  /\ last = Call("new", Writer(FALSE, NoMutationID, FALSE), <<>>, "ok")
  /\ pre = [records |-> ConnectionStore, rootCallMap |-> EmptyMap,
            nodeConnectionMap |-> EmptyMap]
  /\ repeat = FALSE
  /\ written = {}
  /\ generations = EmptyMap

NextRange ==
  \/ \E w \in FieldWriters, connectionID \in ConnectionIDs,
        calls \in RangeCalls, forceIndex \in ForceIndexes :
        PutRange(w, connectionID, calls, forceIndex)
  \/ \E w \in FieldWriters, connectionID \in ConnectionIDs,
        calls \in EdgeCalls, pageInfo \in PageInfos,
        edges \in EdgeLists :
        PutRangeEdges(w, connectionID, calls, pageInfo, edges)
  \/ \E connectionID \in ConnectionIDs, edgeID \in EdgeIDs,
        operation \in RangeOperations :
        ApplyRangeUpdate(Writer(FALSE, NoMutationID, TRUE), connectionID,
                         edgeID, operation)
  \/ \E w \in FieldWriters, dataID \in {"c1", "n1"} : DeleteRecord(w, dataID)
  \/ \E w \in FieldWriters, connectionID \in ConnectionIDs :
        PutRecord(w, connectionID, "Connection", NoPath)
  \/ \E nodeID \in NodeIDs :
        PutLinkedRecordID(Writer(FALSE, NoMutationID, TRUE), "e2", NODE, nodeID)

SpecRange == InitRange /\ [][NextRange]_vars

\* ------------------- the two modes of applyRangeUpdate on one connection.
\* The run starts from the store above after a committed
\* putRange(c1, [orderby(top)]) and putRangeEdges(c1, [first(2)], ..., [e1]).
QueueStore ==
  Put(ConnectionStore, "c1",
      Rec(Put(Put(Put(ConnectionStore["c1"].fields,
                      FILTER_CALLS, List(<<OrderByCall>>)),
                  FORCE_INDEX, Num(0)),
              RANGE, addItems(NewRange, <<FirstCall>>,
                              <<EdgeData("e1", Str("e1"), "n1")>>,
                              [hasNextPage |-> TRUE]))))
QueueConnections == Put(EmptyMap, "n1", {"c1"})

InitQueue ==
  /\ records = QueueStore
  /\ rootCallMap = EmptyMap
  /\ nodeConnectionMap = QueueConnections
  /\ cacheCalls = <<>>
  /\ last = Call("new", Writer(FALSE, NoMutationID, FALSE), <<>>, "ok")
  /\ pre = [records |-> QueueStore, rootCallMap |-> EmptyMap,
            nodeConnectionMap |-> QueueConnections]
  /\ repeat = FALSE
  /\ written = {}
  /\ generations = EmptyMap

NextQueue ==
  \E w \in {Writer(FALSE, NoMutationID, TRUE)} \cup OptimisticWriters,
     connectionID \in ConnectionIDs, edgeID \in EdgeIDs,
     operation \in RangeOperations :
     ApplyRangeUpdate(w, connectionID, edgeID, operation)

SpecQueue == InitQueue /\ [][NextQueue]_vars

\* ------------- every write operation on one record, and on one field of
\* it, under Writers of two mutations. The run starts with the record
\* s2, which links refer to.
TagIDs == {"s1"}
TagStore == Put(EmptyMap, "s2", PlainRecord("s2", "User"))
\* one committed Writer and the optimistic Writers of two mutations
TagWriters == {Writer(FALSE, NoMutationID, TRUE), Writer(TRUE, 1, TRUE),
               Writer(TRUE, 2, TRUE)}

InitTag ==
  /\ records = TagStore
  /\ rootCallMap = EmptyMap
  /\ nodeConnectionMap = EmptyMap
  /\ cacheCalls = <<>>
  /\ last = Call("new", Writer(FALSE, NoMutationID, FALSE), <<>>, "ok")
  /\ pre = [records |-> TagStore, rootCallMap |-> EmptyMap,
            nodeConnectionMap |-> EmptyMap]
  /\ repeat = FALSE
  /\ written = {}
  /\ generations = EmptyMap

NextTag ==
  \/ \E w \in TagWriters, dataID \in TagIDs : DeleteRecord(w, dataID)
  \/ \E w \in TagWriters, dataID \in TagIDs :
        PutRecord(w, dataID, "User", NoPath)
  \/ \E w \in TagWriters, dataID \in TagIDs, fragmentID \in FragmentIDs :
        SetHasDeferredFragmentData(w, dataID, fragmentID)
  \/ \E w \in TagWriters, dataID \in TagIDs :
        PutField(w, dataID, "friends", Str("a"))
  \/ \E w \in TagWriters, dataID \in TagIDs :
        DeleteField(w, dataID, "friends")
  \/ \E w \in TagWriters, dataID \in TagIDs :
        PutLinkedRecordID(w, dataID, "friends", "s2")
  \/ \E w \in TagWriters, dataID \in TagIDs :
        PutLinkedRecordIDs(w, dataID, "friends", <<"s2">>)
  \/ \E w \in TagWriters, dataID \in TagIDs :
        ApplyRangeUpdate(w, dataID, "e1", APPEND)

SpecTag == InitTag /\ [][NextTag]_vars

\* ------------- the force index of one connection that is created, given
\* a range with every kind of forceIndex argument, and deleted
NextForce ==
  \/ \E w \in FieldWriters, connectionID \in ConnectionIDs :
        PutRecord(w, connectionID, "Connection", NoPath)
  \/ \E w \in FieldWriters, connectionID \in ConnectionIDs :
        DeleteRecord(w, connectionID)
  \/ \E w \in FieldWriters, connectionID \in ConnectionIDs,
        calls \in RangeCalls, forceIndex \in ForceInputs :
        PutRange(w, connectionID, calls, forceIndex)

SpecForce == Init /\ [][NextForce]_vars

\* ================================================================= claims
\* the fields of a record that are not optimistic bookkeeping
untagged(record) ==
  [k \in DOMAIN record.fields \ {"__mutationIDs__", "__status__"} |->
     record.fields[k]]

\* C1: getRecordState(id) is EXISTENT right after a putRecord(id, T) that
\* returned, NONEXISTENT right after deleteRecord(id), and UNKNOWN for
\* every id that no write has yet been aimed at.
C1_TriState ==
  /\ (last.op = "putRecord" /\ last.result = "ok")
       => getRecordState(records, last.args[1]) = "EXISTENT"
  /\ last.op = "deleteRecord"
       => getRecordState(records, last.args[1]) = "NONEXISTENT"
  /\ \A dataID \in DataIDs \ written :
       getRecordState(records, dataID) = "UNKNOWN"

\* a deleteRecord of a record that putRecord had created, another id untouched
C1_Witness ==
  /\ last.op = "deleteRecord"
  /\ getRecordState(pre.records, last.args[1]) = "EXISTENT"
  /\ getRecordState(records, last.args[1]) = "NONEXISTENT"
  /\ \E dataID \in RecordIDs \ written :
       getRecordState(records, dataID) = "UNKNOWN"

\* C2 (as claimed): putRecord leaves the record map unchanged whenever the
\* slot of id is already present, EXISTENT or tombstoned.
C2_NoOpWhenPresent ==
  (last.op = "putRecord"
     /\ getRecordState(pre.records, last.args[1]) \in {"EXISTENT", "NONEXISTENT"})
  => records = pre.records

\* C2 (amended): putRecord changes nothing of an EXISTENT record but its
\* optimistic tag (and nothing at all under a committed Writer), makes no
\* persistence call for it, and leaves every other id alone; an UNKNOWN or
\* tombstoned id gets a new EXISTENT record of the given type.
C2_NoOpWhenExistent ==
  last.op = "putRecord" =>
    LET dataID == last.args[1]
        before == getRecordState(pre.records, dataID)
    IN /\ \A other \in DataIDs \ {dataID} :
            lookup(records, other) = lookup(pre.records, other)
       /\ before = "EXISTENT" =>
            /\ last.result = "ok"
            /\ getRecordState(records, dataID) = "EXISTENT"
            /\ untagged(records[dataID]) = untagged(pre.records[dataID])
            /\ ~last.w.isOptimisticWrite => records = pre.records
            /\ cacheCalls = <<>>
       /\ (before # "EXISTENT" /\ last.result = "ok") =>
            /\ getRecordState(records, dataID) = "EXISTENT"
            /\ getType(records, dataID) = Str(last.args[2])
            /\ DOMAIN untagged(records[dataID])
                 \subseteq {"__dataID__", "__typename", PATH}
       /\ last.result # "ok" => records = pre.records

\* putRecord on a tombstoned id has created a record again
C2_Witness ==
  /\ last.op = "putRecord"
  /\ getRecordState(pre.records, last.args[1]) = "NONEXISTENT"
  /\ getRecordState(records, last.args[1]) = "EXISTENT"

\* C3: the second of two identical putRecord calls in a row (same Writer,
\* id, type and path) changes none of the three maps and makes no
\* persistence call.
C3_PutRecordIdempotent ==
  (repeat /\ last.op = "putRecord") => (Store = pre /\ cacheCalls = <<>>)

\* an optimistic putRecord repeated on a record carrying just its tag
C3_Witness ==
  /\ repeat
  /\ last.op = "putRecord"
  /\ last.result = "ok"
  /\ last.w.isOptimisticWrite
  /\ records[last.args[1]].fields["__mutationIDs__"]
       = List(<<last.w.clientMutationID>>)

\* C4: a putRecord that has to create the record of a client id fails, and
\* changes nothing, when the path is absent; with a path it creates the
\* record and getPathToRecord returns that path. Creating the record of a
\* server id succeeds without a path.
C4_ClientPath ==
  (last.op = "putRecord"
     /\ getRecordState(pre.records, last.args[1]) # "EXISTENT") =>
    LET dataID == last.args[1]
        path == last.args[3]
    IN IF isClientID(dataID) /\ path = NoPath
       THEN /\ last.result = "invariant"
            /\ Store = pre
            /\ cacheCalls = <<>>
       ELSE /\ last.result = "ok"
            /\ getRecordState(records, dataID) = "EXISTENT"
            /\ isClientID(dataID) => getPathToRecord(records, dataID) = Str(path)

\* a client record created with its path, after a failed attempt without
C4_Witness ==
  /\ last.op = "putRecord"
  /\ isClientID(last.args[1])
  /\ getRecordState(pre.records, last.args[1]) = "NONEXISTENT"
  /\ getPathToRecord(records, last.args[1]) = Str("path1")

\* C5: on an EXISTENT record getField(id, k) right after putField(id, k, v)
\* returns v, and right after deleteField(id, k) returns null with the key
\* still an own property of the record.
C5_FieldRoundTrip ==
  /\ (last.op = "putField"
        /\ getRecordState(pre.records, last.args[1]) = "EXISTENT")
       => /\ last.result = "ok"
          /\ getField(records, last.args[1], last.args[2]) = last.args[3]
  /\ (last.op = "deleteField"
        /\ getRecordState(pre.records, last.args[1]) = "EXISTENT")
       => /\ last.result = "ok"
          /\ getField(records, last.args[1], last.args[2]) = Null
          /\ last.args[2] \in DOMAIN records[last.args[1]].fields

\* deleteField has cleared a field that held a value
C5_Witness ==
  /\ last.op = "deleteField"
  /\ getField(pre.records, last.args[1], last.args[2]) = Str("Alice")
  /\ getField(records, last.args[1], last.args[2]) = Null

\* C6: putField and deleteField fail on an UNKNOWN or NONEXISTENT record,
\* putLinkedRecordID(s) fail when the parent or a referenced record is
\* UNKNOWN or NONEXISTENT, and all four succeed when these records are
\* EXISTENT.
C6_WritesRequireExistence ==
  LET exists(dataID) == getRecordState(pre.records, dataID) = "EXISTENT"
      outcome(allExist) == IF allExist THEN last.result = "ok"
                           ELSE last.result = "invariant"
  IN /\ last.op \in {"putField", "deleteField"} => outcome(exists(last.args[1]))
     /\ last.op = "putLinkedRecordID"
          => outcome(exists(last.args[1]) /\ exists(last.args[3]))
     /\ last.op = "putLinkedRecordIDs"
          => outcome(/\ exists(last.args[1])
                     /\ \A i \in 1..Len(last.args[3]) : exists(last.args[3][i]))

\* putLinkedRecordIDs refused for one tombstoned record among existing ones
C6_Witness ==
  /\ last.op = "putLinkedRecordIDs"
  /\ last.result = "invariant"
  /\ getRecordState(pre.records, last.args[1]) = "EXISTENT"
  /\ Len(last.args[3]) = 2
  /\ getRecordState(pre.records, last.args[3][1]) = "EXISTENT"
  /\ getRecordState(pre.records, last.args[3][2]) = "NONEXISTENT"

\* C7: after a putLinkedRecordID(parent, k, a) that returned,
\* getLinkedRecordID(parent, k) is a; after a putLinkedRecordIDs(parent, k,
\* ids) that returned, getLinkedRecordIDs(parent, k) is ids, same order,
\* same length, duplicates kept.
C7_LinkedRoundTrip ==
  /\ (last.op = "putLinkedRecordID" /\ last.result = "ok")
       => getLinkedRecordID(records, last.args[1], last.args[2])
            = Return(Str(last.args[3]))
  /\ (last.op = "putLinkedRecordIDs" /\ last.result = "ok")
       => getLinkedRecordIDs(records, last.args[1], last.args[2])
            = Return(List([i \in 1..Len(last.args[3]) |-> Str(last.args[3][i])]))

\* a list of two different ids written over a list with a repeated id
C7_Witness ==
  /\ last.op = "putLinkedRecordIDs"
  /\ last.result = "ok"
  /\ last.args[3] = <<"s2", "s1">>
  /\ getLinkedRecordIDs(pre.records, last.args[1], last.args[2])
       = Return(List(<<Str("s2"), Str("s2")>>))

C9_RootCallRoundTrip ==
  /\ \A storageKey \in RootStorageKeys \ {NODE_ROOT_CALL} :
       /\ getDataID(rootCallMap, storageKey, Undefined)
            = getDataID(rootCallMap, storageKey, Str(EMPTY))
       /\ getDataID(rootCallMap, storageKey, Null)
            = getDataID(rootCallMap, storageKey, Str(EMPTY))
  /\ (last.op = "putDataID" /\ last.args[1] # NODE_ROOT_CALL) =>
       LET storageKey == last.args[1]
           arg == last.args[2]
           before == IF storageKey \in DOMAIN pre.rootCallMap
                     THEN DOMAIN pre.rootCallMap[storageKey] ELSE {}
       IN /\ last.result = "ok"
          /\ getDataID(rootCallMap, storageKey, arg) = Return(Str(last.args[3]))
          /\ arg \in {Undefined, Null, Str(EMPTY)} =>
               /\ getDataID(rootCallMap, storageKey, Str(EMPTY))
                    = Return(Str(last.args[3]))
               /\ DOMAIN rootCallMap[storageKey] = before \cup {EMPTY}
          /\ \A other \in RootArgs \ {arg, Undefined, Null, Str(EMPTY)} :
               getDataID(rootCallMap, storageKey, other)
                 = getDataID(pre.rootCallMap, storageKey, other)

\* a put with a null argument has replaced the id stored under ''
C9_Witness ==
  /\ last.op = "putDataID"
  /\ last.args[1] = "viewer"
  /\ last.args[2] = Null
  /\ getDataID(pre.rootCallMap, "viewer", Str(EMPTY)) = Return(Str("s1"))
  /\ getDataID(rootCallMap, "viewer", Str(EMPTY)) = Return(Str("s2"))
  /\ getDataID(rootCallMap, "viewer", Undefined) = Return(Str("s2"))

\* C10: getDataID(node, arg) returns arg for every non-null arg whatever
\* has been put, putDataID(node, arg, id) leaves the root-call map as it
\* was, no entry ever exists under the node key, and both operations fail
\* on a null or undefined arg.
C10_NodeRootCallBypass ==
  /\ \A arg \in RootArgs :
       getDataID(rootCallMap, NODE_ROOT_CALL, arg)
         = IF arg \in {Undefined, Null} THEN Throw("invariant") ELSE Return(arg)
  /\ NODE_ROOT_CALL \notin DOMAIN rootCallMap
  /\ (last.op = "putDataID" /\ last.args[1] = NODE_ROOT_CALL) =>
       /\ rootCallMap = pre.rootCallMap
       /\ last.result = IF last.args[2] \in {Undefined, Null}
                        THEN "invariant" ELSE "ok"

\* putDataID(node, '4', s1) returned with other root calls memoized
C10_Witness ==
  /\ last.op = "putDataID"
  /\ last.args = <<NODE_ROOT_CALL, Str("4"), "s1">>
  /\ last.result = "ok"
  /\ rootCallMap # EmptyMap
  /\ getDataID(rootCallMap, NODE_ROOT_CALL, Str("4")) = Return(Str("4"))

\* C11: putRange under an optimistic Writer always fails and leaves the
\* records (tags included), the root-call map and the node-connection map
\* as they were, with no persistence call; under a committed Writer it
\* fails when the connection record is not EXISTENT.
C11_PutRangeGuarded ==
  last.op = "putRange" =>
    /\ last.w.isOptimisticWrite =>
         /\ last.result = "invariant"
         /\ Store = pre
         /\ cacheCalls = <<>>
    /\ (~last.w.isOptimisticWrite
          /\ getRecordState(pre.records, last.args[1]) # "EXISTENT") =>
         /\ last.result = "invariant"
         /\ Store = pre

\* an optimistic putRange on an EXISTENT connection that holds edges
C11_Witness ==
  /\ last.op = "putRange"
  /\ last.w.isOptimisticWrite
  /\ last.result = "invariant"
  /\ getRecordState(records, "c1") = "EXISTENT"
  /\ hasRange(records, "c1")
  /\ rangeEdges(_getField(records, "c1", RANGE)) = {"e1", "e2"}

\* the calls of a list that are not first / after / last / before, in order
C12_NonPagination(calls) ==
  SelectSeq(calls, LAMBDA call :
                     call.name \notin {"first", "after", "last", "before"})

\* C12: after putRange(conn, calls, f) getRangeFilterCalls(conn) is the
\* sub-sequence of calls that are not pagination calls, in their order;
\* putRangeEdges leaves the stored filter calls as they were.
C12_FilterCallsStored ==
  /\ (last.op = "putRange" /\ last.result = "ok") =>
       getRangeFilterCalls(records, last.args[1])
         = List(C12_NonPagination(last.args[2]))
  /\ last.op = "putRangeEdges" =>
       getRangeFilterCalls(records, last.args[1])
         = getRangeFilterCalls(pre.records, last.args[1])

\* putRangeEdges with a pagination call merged a page into a connection
\* whose putRange had dropped a pagination call between two filter calls
C12_Witness ==
  /\ last.op = "putRangeEdges"
  /\ last.result = "ok"
  /\ last.args[2] = <<FirstCall>>
  /\ getRangeFilterCalls(records, "c1") = List(<<OrderByCall, FriendsCall>>)
  /\ rangeEdges(_getField(records, "c1", RANGE)) # {}

\* the node an edge record links to, "" when it links to none
C13_NodeOf(recs, edgeID) ==
  LET nodeID == getLinkedRecordID(recs, edgeID, NODE) IN
  IF nodeID.result = "ok" /\ nodeID.value.tag = "string" THEN nodeID.value.v
  ELSE ""

\* the edges of a range that reference a node
C13_EdgesOfNode(range, nodeID) ==
  UNION {{range.segments[key].edges[i].edgeID :
            i \in {j \in 1..Len(range.segments[key].edges) :
                     range.segments[key].edges[j].nodeID = nodeID}} :
         key \in DOMAIN range.segments}

C13_Connections(map, nodeID) ==
  IF nodeID \in DOMAIN map THEN map[nodeID] ELSE {}

\* C13: after a committed putRangeEdges(conn, ..., edges) the node of every
\* listed edge has conn in its entry; after a committed remove of e, the
\* only edge of conn referencing n, conn is not in n's entry and the entry
\* is gone when conn was its only connection; a committed append or
\* prepend of e puts conn into the entry of e's node.
C13_ReverseIndexMaintained ==
  LET conn == last.args[1]
      committedOk == ~last.w.isOptimisticWrite /\ last.result = "ok"
  IN /\ (last.op = "putRangeEdges" /\ committedOk) =>
          \A i \in 1..Len(last.args[4]) :
            conn \in C13_Connections(nodeConnectionMap,
                                     C13_NodeOf(pre.records, last.args[4][i]))
     /\ (last.op = "applyRangeUpdate" /\ committedOk) =>
          LET edgeID == last.args[2]
              n == C13_NodeOf(pre.records, edgeID)
              before == _getField(pre.records, conn, RANGE)
          IN IF last.args[3] = REMOVE
             THEN C13_EdgesOfNode(before, n) = {edgeID} =>
                    /\ conn \notin C13_Connections(nodeConnectionMap, n)
                    /\ C13_Connections(pre.nodeConnectionMap, n) = {conn} =>
                         n \notin DOMAIN nodeConnectionMap
             ELSE conn \in C13_Connections(nodeConnectionMap, n)

\* the committed remove of e1 took the only connection of n1 out of the map
C13_Witness ==
  /\ last.op = "applyRangeUpdate"
  /\ last.args = <<"c1", "e1", REMOVE>>
  /\ last.result = "ok"
  /\ C13_EdgesOfNode(_getField(pre.records, "c1", RANGE), "n1") = {"e1"}
  /\ pre.nodeConnectionMap["n1"] = {"c1"}
  /\ "n1" \notin DOMAIN nodeConnectionMap
  /\ "n2" \in DOMAIN nodeConnectionMap

\* C15: deleteRecord(id) leaves id tombstoned; a committed Writer also
\* takes id's entry out of the node-connection map and calls
\* writeNode(id, null); an optimistic Writer leaves the map as it was and
\* makes no persistence call.
C15_DeleteRecordModes ==
  last.op = "deleteRecord" =>
    LET dataID == last.args[1] IN
    /\ getRecordState(records, dataID) = "NONEXISTENT"
    /\ ~last.w.isOptimisticWrite =>
         /\ dataID \notin DOMAIN nodeConnectionMap
         /\ \A other \in DOMAIN pre.nodeConnectionMap \ {dataID} :
              /\ other \in DOMAIN nodeConnectionMap
              /\ nodeConnectionMap[other] = pre.nodeConnectionMap[other]
         /\ last.w.cacheWriter =>
              cacheCalls = <<[fn |-> "writeNode", id |-> dataID, value |-> Null]>>
    /\ last.w.isOptimisticWrite =>
         /\ nodeConnectionMap = pre.nodeConnectionMap
         /\ cacheCalls = <<>>

\* an optimistic deleteRecord of a node that two edges of c1 reference
C15_Witness ==
  /\ last.op = "deleteRecord"
  /\ last.w.isOptimisticWrite
  /\ last.args = <<"n1">>
  /\ "n1" \in DOMAIN nodeConnectionMap
  /\ records["n1"] = Null
  /\ pre.records["n1"] # Null

\* the edge ids of the unfiltered segment of a connection's range, in order
C14_Edges(recs, connectionID) ==
  LET range == _getField(recs, connectionID, RANGE) IN
  IF ~truthy(range) THEN <<>>
  ELSE [i \in 1..Len(segmentOf(range, <<>>).edges) |->
          segmentOf(range, <<>>).edges[i].edgeID]

C14_Queue(recs, connectionID, operation) ==
  LET queue == _getField(recs, connectionID, operation) IN
  IF truthy(queue) THEN queue.items ELSE <<>>

\* C14: applyRangeUpdate under an optimistic Writer leaves the connection's
\* range, the node-connection map and the persistence collaborator alone
\* and records the edge id in the queue of its operation; under a
\* committed Writer the same call applies the operation to the range.
C14_DualMode ==
  last.op = "applyRangeUpdate" =>
    LET conn == last.args[1]
        edgeID == last.args[2]
        operation == last.args[3]
        edges == C14_Edges(records, conn)
    IN /\ last.w.isOptimisticWrite =>
            /\ hasRange(records, conn) = hasRange(pre.records, conn)
            /\ _getField(records, conn, RANGE) = _getField(pre.records, conn, RANGE)
            /\ nodeConnectionMap = pre.nodeConnectionMap
            /\ cacheCalls = <<>>
            /\ last.result = "ok" =>
                 /\ \E i \in 1..Len(C14_Queue(records, conn, operation)) :
                      C14_Queue(records, conn, operation)[i] = Str(edgeID)
                 /\ Len(C14_Queue(records, conn, operation))
                      = Len(C14_Queue(pre.records, conn, operation)) + 1
       /\ (~last.w.isOptimisticWrite /\ last.result = "ok") =>
            /\ operation = REMOVE =>
                 \A i \in 1..Len(edges) : edges[i] # edgeID
            /\ operation = APPEND => edges[Len(edges)] = edgeID
            /\ operation = PREPEND => edges[1] = edgeID

\* the committed append of e2 after an optimistic Writer had queued the
\* same append: the range gained e2, the queue is still there
C14_Witness ==
  /\ last.op = "applyRangeUpdate"
  /\ ~last.w.isOptimisticWrite
  /\ last.args = <<"c1", "e2", APPEND>>
  /\ last.result = "ok"
  /\ C14_Queue(pre.records, "c1", APPEND) = <<Str("e2")>>
  /\ C14_Edges(pre.records, "c1") = <<"e1">>
  /\ C14_Edges(records, "c1") = <<"e1", "e2">>

\* the nodes of the edges a connection's range holds
C17_RangeNodes(recs, connectionID) ==
  IF hasRange(recs, connectionID)
  THEN rangeNodes(_getField(recs, connectionID, RANGE))
  ELSE {}

\* C16: no operation of an optimistic Writer calls the persistence
\* collaborator (writeField, writeNode, writeRootCall).
C16_OnlyCommittedPersist ==
  last.w.isOptimisticWrite => cacheCalls = <<>>

\* C17: in every reachable state connection C is in the node-connection
\* entry of node N if and only if N is the node of some edge in C's range.
C17_ReverseIndexExact ==
  \A connectionID \in ConnectionIDs, nodeID \in NodeIDs :
    connectionID \in C13_Connections(nodeConnectionMap, nodeID)
      <=> nodeID \in C17_RangeNodes(records, connectionID)

\* C18: every key of the node-connection map maps to at least one
\* connection; a remove that drops a node's last connection drops the key.
C18_NoEmptyEntry ==
  /\ \A nodeID \in DOMAIN nodeConnectionMap : nodeConnectionMap[nodeID] # {}
  /\ (last.op = "applyRangeUpdate" /\ last.args[3] = REMOVE
        /\ last.result = "ok") =>
       LET nodeID == C13_NodeOf(pre.records, last.args[2]) IN
       C13_Connections(pre.nodeConnectionMap, nodeID) \subseteq {last.args[1]}
         => nodeID \notin DOMAIN nodeConnectionMap

\* e2 was relinked to n1 and removed: the key n1 left the map although
\* e1 -> n1 is still in the range, and n2 kept its entry
C18_Witness ==
  /\ last.op = "applyRangeUpdate"
  /\ last.args = <<"c1", "e2", REMOVE>>
  /\ last.result = "ok"
  /\ C13_NodeOf(pre.records, "e2") = "n1"
  /\ pre.nodeConnectionMap = [nodeID \in {"n1", "n2"} |-> {"c1"}]
  /\ DOMAIN nodeConnectionMap = {"n2"}

\* record.__mutationIDs__ of a record, [] when it has none
C19_MutationIDs(record) ==
  IF truthy(record) /\ "__mutationIDs__" \in DOMAIN record.fields
  THEN record.fields["__mutationIDs__"].items ELSE <<>>

C19_Tagged(record, m) ==
  /\ truthy(record)
  /\ \E i \in 1..Len(C19_MutationIDs(record)) : C19_MutationIDs(record)[i] = m
  /\ fieldOf(record.fields, "__status__") = Num(OPTIMISTIC_MASK)

\* C19: the record an optimistic Writer with mutation id m has created or
\* opened for write has m in its mutation-id list and its optimistic
\* status bit set; every record's mutation-id list is duplicate-free and
\* only ever grows at its end, by the id of the Writer that touches the
\* record for the first time.
C19_OptimisticTagging ==
  /\ (last.w.isOptimisticWrite /\ last.result = "ok"
        /\ last.op \in {"putRecord", "putField", "deleteField",
                        "putLinkedRecordID", "putLinkedRecordIDs",
                        "setHasDeferredFragmentData", "applyRangeUpdate"}) =>
       C19_Tagged(lookup(records, last.args[1]), last.w.clientMutationID)
  /\ \A dataID \in DOMAIN records :
       LET now == C19_MutationIDs(records[dataID])
           before == C19_MutationIDs(lookup(pre.records, dataID))
       IN /\ \A i, j \in 1..Len(now) : now[i] = now[j] => i = j
          /\ (truthy(records[dataID]) /\ truthy(lookup(pre.records, dataID))) =>
               \/ now = before
               \/ /\ now = Append(before, last.w.clientMutationID)
                  /\ last.w.isOptimisticWrite

\* the Writer of mutation 1 marks a fragment on a record that the Writers
\* of mutations 2 and 1 have touched, in that order
C19_Witness ==
  /\ last.op = "setHasDeferredFragmentData"
  /\ last.w = Writer(TRUE, 1, TRUE)
  /\ last.result = "ok"
  /\ C19_MutationIDs(pre.records["s1"]) = <<2, 1>>
  /\ C19_MutationIDs(records["s1"]) = <<2, 1>>

\* C20: after setHasDeferredFragmentData(id, f) on an EXISTENT record
\* hasDeferredFragmentData(id, f) is true, and the generation counter of
\* an id never falls below a value it has carried and is strictly above
\* all of them after every setHasDeferredFragmentData on the id, also when
\* the id was deleted and re-created in between.
C20_GenerationIncreases ==
  /\ (last.op = "setHasDeferredFragmentData" /\ last.result = "ok") =>
       /\ hasDeferredFragmentData(records, last.args[1], last.args[2])
            = Return(TRUE)
       /\ last.args[1] \in DOMAIN generations =>
            generationOf(records, last.args[1]) > generations[last.args[1]]
  /\ \A dataID \in DOMAIN generations :
       generationOf(records, dataID) >= 0 =>
         generationOf(records, dataID) >= generations[dataID]

\* C21: once putRange has installed a range on a connection, no operation
\* but deleteRecord of the connection discards its content: a second
\* putRange leaves the range, the filter calls and the force index as they
\* were, and every other operation keeps the edges it does not remove.
C21_RangeNeverReplaced ==
  \A connectionID \in ConnectionIDs :
    (hasRange(pre.records, connectionID)
       /\ ~(last.op = "deleteRecord" /\ last.args[1] = connectionID)) =>
      /\ hasRange(records, connectionID)
      /\ (last.op = "putRange" /\ last.args[1] = connectionID) =>
           /\ _getField(records, connectionID, RANGE)
                = _getField(pre.records, connectionID, RANGE)
           /\ getRangeFilterCalls(records, connectionID)
                = getRangeFilterCalls(pre.records, connectionID)
           /\ getRangeForceIndex(records, connectionID)
                = getRangeForceIndex(pre.records, connectionID)
      /\ ~(last.op = "applyRangeUpdate" /\ last.args[3] = REMOVE) =>
           rangeEdges(_getField(pre.records, connectionID, RANGE))
             \subseteq rangeEdges(_getField(records, connectionID, RANGE))

\* C22: under an optimistic Writer applyRangeUpdate puts the edge id at
\* the end of the append or remove queue and at the head of the prepend
\* queue, keeps the ids queued before in their order, and leaves the
\* queues of the other operations as they were.
C22_QueueOrdering ==
  (last.op = "applyRangeUpdate" /\ last.w.isOptimisticWrite
     /\ last.result = "ok") =>
    LET conn == last.args[1]
        edgeID == last.args[2]
        before == C14_Queue(pre.records, conn, last.args[3])
        now == C14_Queue(records, conn, last.args[3])
    IN /\ last.args[3] \in {APPEND, REMOVE} => now = before \o <<Str(edgeID)>>
       /\ last.args[3] = PREPEND => now = <<Str(edgeID)>> \o before
       /\ \A operation \in RangeOperations \ {last.args[3]} :
            C14_Queue(records, conn, operation)
              = C14_Queue(pre.records, conn, operation)

\* the second prepend went to the head of a queue that held an edge id
C22_Witness ==
  /\ last.op = "applyRangeUpdate"
  /\ last.w.isOptimisticWrite
  /\ last.args = <<"c1", "e2", PREPEND>>
  /\ C14_Queue(pre.records, "c1", PREPEND) = <<Str("e1")>>
  /\ C14_Queue(records, "c1", PREPEND) = <<Str("e2"), Str("e1")>>

\* C25: no operation of an optimistic Writer changes the edges of any
\* connection's range or any entry of the node-connection map.
C25_ServerTruthOnly ==
  last.w.isOptimisticWrite =>
    /\ nodeConnectionMap = pre.nodeConnectionMap
    /\ \A connectionID \in ConnectionIDs :
         /\ hasRange(records, connectionID) = hasRange(pre.records, connectionID)
         /\ C14_Edges(records, connectionID) = C14_Edges(pre.records, connectionID)

\* an id's state changed from before to after in the last call
C23_Changed(dataID, before, after) ==
  /\ getRecordState(pre.records, dataID) \in before
  /\ getRecordState(records, dataID) \in after

C23_IDs == DOMAIN records \cup DOMAIN pre.records

\* C23: only putRecord takes an id from UNKNOWN or NONEXISTENT to
\* EXISTENT, and only deleteRecord takes an id to NONEXISTENT.
C23_OnlyPutRecordCreates ==
  \A dataID \in C23_IDs :
    /\ C23_Changed(dataID, {"UNKNOWN", "NONEXISTENT"}, {"EXISTENT"})
         => last.op = "putRecord"
    /\ C23_Changed(dataID, {"UNKNOWN", "EXISTENT"}, {"NONEXISTENT"})
         => last.op = "deleteRecord"

\* C23 as amended: only putRecord and applyRangeUpdate under an optimistic
\* Writer take an id from UNKNOWN or NONEXISTENT to EXISTENT, only
\* deleteRecord takes an id to NONEXISTENT, and no operation takes an id
\* back to UNKNOWN.
C23_CreatedByPutRecordOrQueue ==
  \A dataID \in C23_IDs :
    /\ C23_Changed(dataID, {"UNKNOWN", "NONEXISTENT"}, {"EXISTENT"})
         => /\ last.args[1] = dataID
            /\ \/ last.op = "putRecord"
               \/ last.op = "applyRangeUpdate" /\ last.w.isOptimisticWrite
    /\ C23_Changed(dataID, {"UNKNOWN", "EXISTENT"}, {"NONEXISTENT"})
         => last.op = "deleteRecord" /\ last.args[1] = dataID
    /\ ~C23_Changed(dataID, {"NONEXISTENT", "EXISTENT"}, {"UNKNOWN"})

\* an optimistic applyRangeUpdate made a tombstoned id EXISTENT
C23_Witness ==
  /\ last.op = "applyRangeUpdate"
  /\ last.w.isOptimisticWrite
  /\ last.result = "ok"
  /\ C23_Changed("s1", {"NONEXISTENT"}, {"EXISTENT"})
  /\ "__typename" \notin DOMAIN records["s1"].fields

\* C24: an operation that signals a precondition failure leaves the
\* records (tags and status bits included), the root-call map and the
\* node-connection map as they were and makes no persistence call.
C24_FailureLeavesStore ==
  last.result # "ok" => Store = pre /\ cacheCalls = <<>>

\* C26: getRangeForceIndex(conn) is -1 when conn is NONEXISTENT, 0 when
\* conn is UNKNOWN or EXISTENT without a range, and right after
\* putRange(conn, calls, f) it is f, with a left out, null or zero f read
\* as 0; it is never negative for a connection that is not NONEXISTENT.
C26_ForceIndexReadBack ==
  \A connectionID \in ConnectionIDs :
    LET state == getRecordState(records, connectionID)
        read == getRangeForceIndex(records, connectionID)
    IN /\ state = "NONEXISTENT" => read = 0 - 1
       /\ (state = "UNKNOWN" \/ ~hasRange(records, connectionID))
            /\ state # "NONEXISTENT" => read = 0
       /\ (last.op = "putRange" /\ last.result = "ok"
             /\ last.args[1] = connectionID) =>
            read = IF last.args[3].tag = "number" THEN last.args[3].n ELSE 0
       /\ state # "NONEXISTENT" => read >= 0

\* putRange with a null forceIndex on a connection whose range had index 2
C26_Witness ==
  /\ last.op = "putRange"
  /\ last.result = "ok"
  /\ last.args[3] = Null
  /\ getRangeForceIndex(pre.records, "c1") = 2
  /\ getRangeForceIndex(records, "c1") = 0
====
